---------------------------- MODULE Spec2Model ----------------------------
(***************************************************************************)
(* Model of src/app.py: a Streamlit script (main) that appends rows to a   *)
(* Google Sheet, optionally uploads a file to Google Drive first, and lets *)
(* the user search, edit and fully overwrite the sheet.                    *)
(*                                                                         *)
(* Text is a sequence of one-character strings; a cell of the sheet is a   *)
(* text; a row is a sequence of cells (plus a ghost id that the code never *)
(* reads and that only names the record in the properties).  Each browser  *)
(* session runs main() from top to bottom on every user event; a run is    *)
(* cut at its remote calls, so that runs of two sessions interleave there. *)
(***************************************************************************)
EXTENDS Integers, Sequences, FiniteSets, TLC

VARIABLES
    sheet,          \* the remote worksheet: sequence of rows, row 1 normally the header
    drive,          \* the links of the files held by the drive folder
    credsOk,        \* get_creds() returns credentials (cached for the deployment)
    clock,          \* datetime.now(): advances with every appended row
    pc,             \* per session: where its run of main() stands: "idle" between
                    \* runs, "crashed" after an exception left main(), else the
                    \* remote call that comes next
    term,           \* per session: search_term (widget state, kept between runs)
    grid,           \* per session: the page shows search box, grid and save button
    edited,         \* per session: the local edited_df, the frame the data editor returned
    form,           \* per session: the submitted form values of this run
    file_link,      \* per session: the local file_link of the submit handler
    msg,            \* per session: what the current run has displayed so far
    fresh,          \* ghost: the latest appended record, while no get_data has returned
                    \* it and no write followed it
    missed,         \* ghost, per session: rows appended by others after the last read
                    \* before it pressed save
    racing,         \* ghost, per session: rows appended by others between the read of
                    \* its save run and its clear
    interfered      \* ghost, per session: another session wrote after the last write
                    \* of its run

vars == <<sheet, drive, credsOk, clock, pc, term, grid, edited, form, file_link, msg,
          fresh, missed, racing, interfered>>

\* the state of the deployment and of the two services
remote == <<sheet, drive, credsOk, clock>>

-----------------------------------------------------------------------------
(* Bounds of the model *)

\* rows appended in one behaviour
MaxAppends == 2
\* files the drive folder receives in one behaviour
MaxFiles == 1
\* length of a search term, and of a title or tags cell, in the search specification
MaxTermLen == 2
MaxCellLen == 2

Sessions == {"A", "B"}

-----------------------------------------------------------------------------
(* Text helpers *)

Digits == <<"0", "1", "2", "3", "4", "5", "6", "7", "8", "9">>

\* str(n) for a natural number
RECURSIVE NatStr(_)
NatStr(n) ==
    IF n < 10 THEN <<Digits[n + 1]>>
    ELSE NatStr(n \div 10) \o <<Digits[(n % 10) + 1]>>

DigitVal(c) == CHOOSE d \in 0..9 : Digits[d + 1] = c

\* int(text) for a text of digits
RECURSIVE StrNat(_)
StrNat(t) ==
    IF t = <<>> THEN 0
    ELSE 10 * StrNat(SubSeq(t, 1, Len(t) - 1)) + DigitVal(t[Len(t)])

Range(f) == {f[i] : i \in DOMAIN f}

\* Python None, as the handler's file_link holds it after a failed upload
NoneValue == <<"None">>

Truthy(v) == v # <<>> /\ v # NoneValue


Uppers == <<"A", "B", "C", "D", "E", "F", "G", "H", "I", "J", "K", "L", "M",
            "N", "O", "P", "Q", "R", "S", "T", "U", "V", "W", "X", "Y", "Z">>

Lowers == <<"a", "b", "c", "d", "e", "f", "g", "h", "i", "j", "k", "l", "m",
            "n", "o", "p", "q", "r", "s", "t", "u", "v", "w", "x", "y", "z">>

\* str.lower() of one character
Lower(c) ==
    IF \E i \in 1..26 : Uppers[i] = c
    THEN Lowers[CHOOSE i \in 1..26 : Uppers[i] = c]
    ELSE c

\* One pattern character against one text character under re.IGNORECASE:
\* "." is the regular expression that matches any character.
CharMatches(p, c) == p = "." \/ Lower(p) = Lower(c)

\* Series.str.contains(pat, case=False): re.search of the pattern in the text
\* (patterns here are made of letters, digits and ".")
StrContains(t, pat) ==
    \E off \in 0..(Len(t) - Len(pat)) :
        \A k \in 1..Len(pat) : CharMatches(pat[k], t[off + k])

-----------------------------------------------------------------------------
(* The table *)

ColTitle == <<"t", "i", "t", "l", "e">>
ColCategory == <<"c", "a", "t", "e", "g", "o", "r", "y">>
ColTags == <<"t", "a", "g", "s">>
ColRating == <<"r", "a", "t", "i", "n", "g">>
ColReview == <<"r", "e", "v", "i", "e", "w">>
ColCreatedAt == <<"c", "r", "e", "a", "t", "e", "d", "_", "a", "t">>
ColFileLink == <<"f", "i", "l", "e", "_", "l", "i", "n", "k">>

\* the column order the submit handler writes
Columns == <<ColTitle, ColCategory, ColTags, ColRating, ColReview, ColCreatedAt, ColFileLink>>

TitleIx == 1
CategoryIx == 2
TagsIx == 3
RatingIx == 4
ReviewIx == 5
CreatedAtIx == 6
FileLinkIx == 7

MkRow(cells, id) == [cells |-> cells, id |-> id]

HeaderRow == MkRow(Columns, 0)

\* the rating slider counts in steps of 0.5: ratings are held in half points
\* rating >= 8.0 shows the file uploader
UploadThreshold == 16

\* the text a sheet cell shows for a rating: 9.0 reads back as 9, 7.5 as 7.5
RatingText(r) ==
    IF r % 2 = 0 THEN NatStr(r \div 2) ELSE NatStr(r \div 2) \o <<".", "5">>

\* numericise() of a rating cell, in half points
RatingOfText(t) ==
    IF Len(t) > 2 /\ SubSeq(t, Len(t) - 1, Len(t)) = <<".", "5">>
    THEN 2 * StrNat(SubSeq(t, 1, Len(t) - 2)) + 1
    ELSE 2 * StrNat(t)

\* a value handed to append_row or update, as the cell it becomes: None is an empty cell
CellOf(v) == IF v = NoneValue THEN <<>> ELSE v

LinkPrefix == <<"h", "t", "t", "p", "s", ":", "/", "/">>
LinkHost == <<"d", "r", "i", "v", "e", "/">>

\* file.get('webViewLink') of the n-th file the folder receives
WebViewLink(n) == LinkPrefix \o LinkHost \o NatStr(n)

\* the LinkColumn's validate pattern "^https://.*"
WellFormedLink(v) == Len(v) >= Len(LinkPrefix) /\ SubSeq(v, 1, Len(LinkPrefix)) = LinkPrefix

\* pd.DataFrame: column labels and rows
MkFrame(columns, rows) == [columns |-> columns, rows |-> rows]

EmptyFrame == MkFrame(<<>>, <<>>)

FrameEmpty(d) == d.rows = <<>> \/ d.columns = <<>>

\* a row of the sheet cut or padded with empty cells to n cells
Fit(row, n) ==
    MkRow([i \in 1..n |-> IF i <= Len(row.cells) THEN row.cells[i] ELSE <<>>], row.id)

\* sheet.get_all_records() into pd.DataFrame: row 1 gives the keys, the rows below
\* it the records; no records give the frame without columns
GetAllRecords(sh) ==
    IF Len(sh) <= 1 THEN EmptyFrame
    ELSE MkFrame(sh[1].cells,
                 [i \in 1..(Len(sh) - 1) |-> Fit(sh[i + 1], Len(sh[1].cells))])

\* get_all_records() raises when the cells of the key row are not all different
HeaderNotUnique(sh) ==
    /\ sh # <<>>
    /\ \E i, j \in DOMAIN sh[1].cells : i < j /\ sh[1].cells[i] = sh[1].cells[j]

\* sheet.append_row(row): the row goes below the last row of the table
AppendRow(sh, row) == Append(sh, row)

\* faulty variants of sheet.clear(): the header row survives; nothing is cleared
ClearKeepsHeader(sh) == IF sh = <<>> THEN <<>> ELSE <<Head(sh)>>

ClearNothing(sh) == sh

\* sheet.clear()
ClearSheet(sh) == <<>>

\* [df.columns.values.tolist()] + df.values.tolist()
ValList(d) == <<MkRow(d.columns, 0)>> \o d.rows

\* one written row over the row that was there: cells right of it stay
OverRow(new, old) ==
    MkRow(new.cells \o SubSeq(old.cells, Len(new.cells) + 1, Len(old.cells)), new.id)

\* sheet.update(val_list): writes the rows from cell A1 down, leaves the rest
UpdateSheet(sh, vals) ==
    [i \in 1..(IF Len(sh) > Len(vals) THEN Len(sh) ELSE Len(vals)) |->
        IF i > Len(vals) THEN sh[i]
        ELSE IF i > Len(sh) THEN vals[i]
        ELSE OverRow(vals[i], sh[i])]

-----------------------------------------------------------------------------
(* Search *)

\* x.astype(str).str.contains(search_term, case=False).any() of one row
RowMatches(row, t) == \E i \in DOMAIN row.cells : StrContains(row.cells[i], t)

RECURSIVE SelectRows(_, _)
SelectRows(rows, t) ==
    IF rows = <<>> THEN <<>>
    ELSE (IF RowMatches(Head(rows), t) THEN <<Head(rows)>> ELSE <<>>)
         \o SelectRows(Tail(rows), t)

\* display_df: df[mask] under a search term, df itself without one
DisplayFrame(d, t) == IF t # <<>> THEN MkFrame(d.columns, SelectRows(d.rows, t)) ELSE d

\* if "file_link" not in display_df.columns: display_df["file_link"] = ""
WithFileLink(d) ==
    IF ColFileLink \in Range(d.columns) THEN d
    ELSE MkFrame(Append(d.columns, ColFileLink),
                 [i \in DOMAIN d.rows |-> MkRow(Append(d.rows[i].cells, <<>>), d.rows[i].id)])


-----------------------------------------------------------------------------
(* Inputs *)

Some(x) == <<x>>
Nothing == <<>>

CatAV == <<"A", "V">>
CatCOS == <<"C", "O", "S">>

MkForm(title, category, tags, rating, review, file) ==
    [title |-> title, category |-> category, tags |-> tags, rating |-> rating,
     review |-> review, file |-> file]

\* The form submissions tried.  rating is in half points; file says that the user
\* picks a file whenever the uploader is shown.
Forms ==
    { MkForm(<<>>, CatAV, <<"t">>, 18, <<"r">>, TRUE),
      MkForm(<<>>, CatCOS, <<>>, 15, <<>>, FALSE),
      MkForm(<<"X">>, CatAV, <<>>, 18, <<"r">>, TRUE),
      MkForm(<<"Y">>, CatCOS, <<"t">>, 15, <<>>, TRUE) }

\* the search terms typed in the sessions of the main specification
Terms == {<<>>, <<"x">>}

\* what the user types into a cell of the grid
EditValue(col) == <<"0">>

\* the column whose cells the user changes in the grid (every column can be edited)
EditCols == {CreatedAtIx}

MkEdit(kind, row, col) == [kind |-> kind, row |-> row, col |-> col]

\* the changes tried in st.data_editor(display_df, ...): none, or one cell retyped
Edits(d) ==
    {MkEdit("none", 0, 0)}
    \cup {MkEdit("cell", i, c) : i \in DOMAIN d.rows, c \in EditCols \cap DOMAIN d.columns}

\* edited_df: the frame the data editor returns
ApplyEdit(d, e) ==
    IF e.kind = "cell"
    THEN MkFrame(d.columns,
                 [d.rows EXCEPT ![e.row] =
                     MkRow([@.cells EXCEPT ![e.col] = EditValue(e.col)], @.id)])
    ELSE d

\* Faulty variants of the operators below, against which the properties are
\* tried: the title test dropped, the rating gate of the uploader dropped, the
\* search-term test of the save button dropped.
TitleNeverMissing(f) == FALSE

UploadedFileAnyRating(f) == f.file

SearchNeverActive(t) == FALSE

\* line 147: "if not title"
TitleMissing(f) == ~Truthy(f.title)

\* lines 137-142 and 153: the uploader exists only when rating >= 8.0, and
\* "if uploaded_file" holds when the user has picked a file in it
UploadedFile(f) == f.rating >= UploadThreshold /\ f.file

\* lines 179 and 216: "if search_term"
SearchActive(t) == Truthy(t)

\* str(datetime.now()) at clock value now: the digits of the time with their
\* separators, of which the seconds part "<now>:0.0" is kept
StrOfTime(now) == NatStr(now) \o <<":", "0", ".", "0">>

\* line 166: the row the submit handler builds
BuildRow(f, link, now) ==
    MkRow(<<f.title, f.category, f.tags, RatingText(f.rating), f.review,
            StrOfTime(now), CellOf(link)>>, now)

Set(fn, s, v) == [fn EXCEPT ![s] = v]

-----------------------------------------------------------------------------
(* Initial state: a deployed app, a worksheet that holds its header row *)

Init ==
    /\ sheet = <<HeaderRow>>
    /\ drive = {}
    /\ credsOk \in BOOLEAN
    /\ clock = 0
    /\ pc = [s \in Sessions |-> "idle"]
    /\ term = [s \in Sessions |-> <<>>]
    /\ grid = [s \in Sessions |-> FALSE]
    /\ edited = [s \in Sessions |-> EmptyFrame]
    /\ form = [s \in Sessions |-> Nothing]
    /\ file_link = [s \in Sessions |-> <<>>]
    /\ msg = [s \in Sessions |-> "none"]
    /\ fresh = Nothing
    /\ missed = [s \in Sessions |-> {}]
    /\ racing = [s \in Sessions |-> {}]
    /\ interfered = [s \in Sessions |-> FALSE]

\* ghost: session t has written in its run and has not yet seen the outcome
AfterOwnWrite(t) == pc[t] = "update" \/ (pc[t] = "read" /\ msg[t] = "success")

\* ghost bookkeeping of a table write by session s
OthersInterfered(s) ==
    [t \in Sessions |->
        IF t = s THEN FALSE
        ELSE IF AfterOwnWrite(t) THEN TRUE
        ELSE interfered[t]]

\* ghost: the rows that another session appended and that no get_data has returned yet
Unseen(s) ==
    IF fresh # Nothing /\ fresh[1].by # s THEN {fresh[1].id} ELSE {}

\* no run of session s is under way: a user event starts one
Resting(s) == pc[s] \in {"idle", "crashed"}

\* the locals of the run of session s are gone, the page stays
Finish(s, shows) ==
    /\ grid' = Set(grid, s, shows)
    /\ edited' = Set(edited, s, EmptyFrame)
    /\ form' = Set(form, s, Nothing)
    /\ file_link' = Set(file_link, s, <<>>)
    /\ msg' = Set(msg, s, "none")
    /\ missed' = Set(missed, s, {})
    /\ racing' = Set(racing, s, {})
    /\ interfered' = Set(interfered, s, FALSE)

\* the run ends with an exception nobody caught: the page shows the traceback
\* below whatever was rendered before
Crash(s, shows) ==
    /\ Finish(s, shows)
    /\ pc' = Set(pc, s, "crashed")

\* the script has run to its end
EndRun(s, shows) ==
    /\ Finish(s, shows)
    /\ pc' = Set(pc, s, "idle")

-----------------------------------------------------------------------------
(* get_data, lines 59-67, as tab 2 calls it on line 174 *)

\* how the remote part of get_data goes: open_by_url raises ("crash", line 60
\* stands before the try block), get_all_records raises ("fail", caught on line
\* 65), or both return ("ok")
ReadOutcomes == {"crash", "fail", "ok"}

\* the exception of get_sheet_client() leaves get_data
GetDataRaises(o) == credsOk /\ o = "crash"

\* the frame get_data returns: the records, or the empty frame of lines 66-67
GetData(o) ==
    IF ~credsOk THEN EmptyFrame
    ELSE IF o = "ok" /\ ~HeaderNotUnique(sheet) THEN GetAllRecords(sheet)
    ELSE EmptyFrame

\* tab 2 of a run in which the save button was not pressed
Tab2(s, o) ==
    /\ IF GetDataRaises(o) THEN Crash(s, FALSE)
       ELSE EndRun(s, ~FrameEmpty(GetData(o)))
    /\ fresh' = IF credsOk /\ o = "ok" THEN Nothing ELSE fresh

-----------------------------------------------------------------------------
(* Tab 1: the entry form, lines 146-169 *)

\* how upload_file_to_drive goes: "drive_folder_id" is not in st.secrets
\* ("nofolder", lines 82-84), files().create(...).execute() raises ("fail",
\* caught on line 109), or it returns the file ("ok")
UploadOutcomes == {"nofolder", "fail", "ok"}

\* upload_file_to_drive, lines 78-112: the link of the n-th file of the folder, or None
UploadFileToDrive(o, n) ==
    IF o = "nofolder" THEN NoneValue
    ELSE IF credsOk
         THEN (IF o = "ok" THEN WebViewLink(n) ELSE NoneValue)
         ELSE NoneValue

\* the folder after an upload that returned link
DriveAfterUpload(dr, link) == IF Truthy(link) THEN dr \cup {link} ELSE dr

\* lines 146-148: "if not title: st.warning(...)"; the run goes on to tab 2
SubmitEmpty(s, f) ==
    /\ Resting(s)
    /\ TitleMissing(f)
    /\ form' = Set(form, s, Some(f))
    /\ msg' = Set(msg, s, "warning")
    /\ pc' = Set(pc, s, "read")
    /\ UNCHANGED <<remote, term, grid, edited, file_link, fresh, missed, racing,
                   interfered>>

\* a submission with a title is under way in session s
StartAppend(s, f) ==
    /\ Resting(s)
    /\ ~TitleMissing(f)
    /\ clock + Cardinality({t \in Sessions : pc[t] = "append"}) < MaxAppends
    /\ form' = Set(form, s, Some(f))
    /\ pc' = Set(pc, s, "append")
    /\ UNCHANGED <<sheet, credsOk, clock, term, grid, edited, fresh, missed, racing,
                   interfered>>

\* lines 151-159: the upload comes first; a failed upload leaves file_link None
\* and the handler goes on ("will save the text only")
SubmitWithFile(s, f, o) ==
    /\ UploadedFile(f)
    /\ StartAppend(s, f)
    /\ LET link == UploadFileToDrive(o, Cardinality(drive) + 1)
       IN  /\ Truthy(link) => Cardinality(drive) < MaxFiles
           /\ file_link' = Set(file_link, s, link)
           /\ drive' = DriveAfterUpload(drive, link)
           /\ msg' = Set(msg, s, IF Truthy(link) THEN "none" ELSE "error")

\* lines 151-153 without uploaded_file: file_link stays ""
SubmitPlain(s, f) ==
    /\ ~UploadedFile(f)
    /\ StartAppend(s, f)
    /\ file_link' = Set(file_link, s, <<>>)
    /\ msg' = Set(msg, s, "none")
    /\ drive' = drive

\* lines 162-163 without credentials: get_sheet_client() is None, nothing is
\* written and the run goes on to tab 2
AppendNoClient(s) ==
    /\ pc[s] = "append"
    /\ ~credsOk
    /\ pc' = Set(pc, s, "read")
    /\ UNCHANGED <<remote, term, grid, edited, form, file_link, msg, fresh, missed,
                   racing, interfered>>

\* lines 162-169: the client is there, the row is appended, st.rerun().  form keeps
\* the submitted values until tab 2 of the rerun has read the table.
AppendOk(s) ==
    /\ pc[s] = "append"
    /\ credsOk
    /\ LET row == BuildRow(form[s][1], file_link[s], clock + 1)
       IN  /\ sheet' = AppendRow(sheet, row)
           /\ fresh' = Some([by |-> s, id |-> row.id])
           /\ racing' = [t \in Sessions |->
                            IF t # s /\ pc[t] = "clear"
                            THEN racing[t] \cup {row.id} ELSE racing[t]]
    /\ clock' = clock + 1
    /\ msg' = Set(msg, s, "success")
    /\ pc' = Set(pc, s, "read")
    /\ file_link' = Set(file_link, s, <<>>)
    /\ interfered' = OthersInterfered(s)
    /\ UNCHANGED <<drive, credsOk, term, grid, edited, form, missed>>

\* a variant of the failing append with a compensating cleanup the code does not
\* have: the uploaded file is deleted from the folder before the exception leaves
AppendFailCleans(s) ==
    /\ pc[s] = "append"
    /\ credsOk
    /\ Crash(s, FALSE)
    /\ drive' = drive \ {file_link[s]}
    /\ UNCHANGED <<sheet, credsOk, clock, term, fresh>>

\* lines 162 and 167 stand in no try block: open_by_url or append_row raises and
\* the exception leaves main() before tab 2 is drawn
AppendFail(s) ==
    /\ pc[s] = "append"
    /\ credsOk
    /\ Crash(s, FALSE)
    /\ UNCHANGED <<remote, term, fresh>>

-----------------------------------------------------------------------------
(* Tab 2: the grid, lines 172-221 *)

\* tab 2 of a run that came through the submit handler, or of the run that
\* st.rerun() started after a write
Read(s, o) ==
    /\ pc[s] = "read"
    /\ Tab2(s, o)
    /\ UNCHANGED <<remote, term>>

\* opening the page, or editing a cell of the grid, runs the script
Rerun(s, o) ==
    /\ Resting(s)
    /\ Tab2(s, o)
    /\ UNCHANGED <<remote, term>>

\* line 177: typing into the search box (shown when df was not empty) runs the script
ChangeSearch(s, t, o) ==
    /\ Resting(s)
    /\ grid[s]
    /\ t \in Terms /\ t # term[s]
    /\ term' = Set(term, s, t)
    /\ Tab2(s, o)
    /\ UNCHANGED remote

\* lines 214-217: the save button (shown when df was not empty) runs the script;
\* under a search term the run warns and writes nothing, and with an empty frame
\* it does not reach the button
SaveBlocked(s, o) ==
    /\ Resting(s)
    /\ grid[s]
    /\ FrameEmpty(GetData(o)) \/ SearchActive(term[s]) \/ GetDataRaises(o)
    /\ Tab2(s, o)
    /\ UNCHANGED <<remote, term>>

\* lines 174-219: save pressed without a search term: the frame just read, with the
\* user's change e, goes to update_entire_sheet
SaveStart(s, e) ==
    /\ Resting(s)
    /\ grid[s]
    /\ credsOk
    /\ LET d == GetData("ok")
           shown == WithFileLink(DisplayFrame(d, term[s]))
       IN  /\ ~FrameEmpty(d)
           /\ ~SearchActive(term[s])
           /\ e \in Edits(shown)
           /\ edited' = Set(edited, s, ApplyEdit(shown, e))
    /\ fresh' = Nothing
    /\ missed' = Set(missed, s, Unseen(s))
    /\ racing' = Set(racing, s, {})
    /\ interfered' = Set(interfered, s, FALSE)
    /\ msg' = Set(msg, s, "none")
    /\ pc' = Set(pc, s, "clear")
    /\ UNCHANGED <<remote, term, grid, form, file_link>>

\* update_entire_sheet, lines 70-72: sheet.clear()
ClearOk(s) ==
    /\ pc[s] = "clear"
    /\ sheet' = ClearSheet(sheet)
    /\ pc' = Set(pc, s, "update")
    /\ interfered' = OthersInterfered(s)
    /\ fresh' = Nothing
    /\ UNCHANGED <<drive, credsOk, clock, term, grid, edited, form, file_link, msg,
                   missed, racing>>

\* update_entire_sheet has no try block: open_by_url or clear() raises
ClearFail(s) ==
    /\ pc[s] = "clear"
    /\ Crash(s, TRUE)
    /\ UNCHANGED <<remote, term, fresh>>

\* update_entire_sheet, lines 74-75, then lines 220-221: success and st.rerun()
UpdateOk(s) ==
    /\ pc[s] = "update"
    /\ sheet' = UpdateSheet(sheet, ValList(edited[s]))
    /\ msg' = Set(msg, s, "success")
    /\ pc' = Set(pc, s, "read")
    /\ edited' = Set(edited, s, EmptyFrame)
    /\ interfered' = OthersInterfered(s)
    /\ fresh' = Nothing
    /\ UNCHANGED <<drive, credsOk, clock, term, grid, form, file_link, missed, racing>>

\* sheet.update() raises after the clear went through: nothing puts the rows back
UpdateFail(s) ==
    /\ pc[s] = "update"
    /\ Crash(s, TRUE)
    /\ UNCHANGED <<remote, term, fresh>>

-----------------------------------------------------------------------------

Next ==
    \E s \in Sessions :
        \/ \E f \in Forms : SubmitEmpty(s, f)
        \/ \E f \in Forms, o \in UploadOutcomes : SubmitWithFile(s, f, o)
        \/ \E f \in Forms : SubmitPlain(s, f)
        \/ AppendNoClient(s)
        \/ AppendOk(s)
        \/ AppendFail(s)
        \/ \E o \in ReadOutcomes : Read(s, o)
        \/ \E o \in ReadOutcomes : Rerun(s, o)
        \/ \E t \in Terms, o \in ReadOutcomes : ChangeSearch(s, t, o)
        \/ \E o \in ReadOutcomes : SaveBlocked(s, o)
        \/ \E e \in Edits(WithFileLink(GetAllRecords(sheet))) : SaveStart(s, e)
        \/ ClearOk(s)
        \/ ClearFail(s)
        \/ UpdateOk(s)
        \/ UpdateFail(s)

Spec == Init /\ [][Next]_vars

-----------------------------------------------------------------------------
(* The search of tab 2, lines 174-212, over drawn tables and search terms *)

\* the characters of the tags searched and of the search terms typed: a letter, in
\* upper case in the table and in lower case in the term, and the full stop
CellChars == {"A", "."}
TermChars == {"a", "."}

\* the texts of at most n characters of the set chars
TextsUpTo(chars, n) == UNION {[1..k -> chars] : k \in 0..n}

\* the search terms typed, the empty one included
SearchTerms == TextsUpTo(TermChars, MaxTermLen)

\* the titles and the tags of the records searched
SearchTitles == {<<"a">>, <<"b">>}
SearchTags == TextsUpTo(CellChars, MaxCellLen)

\* a record as the submit handler writes it (line 166), rating 9.0, no review, no file
SearchRecord(title, tags, id) ==
    BuildRow(MkForm(title, CatCOS, tags, 18, <<>>, FALSE), <<>>, id)

\* the worksheets searched: the header and two records
SearchTables ==
    { <<HeaderRow, SearchRecord(t1, g1, 1), SearchRecord(t2, g2, 2)>> :
        t1 \in SearchTitles, t2 \in SearchTitles, g1 \in SearchTags, g2 \in SearchTags }

InitSearch ==
    /\ sheet \in SearchTables
    /\ drive = {}
    /\ credsOk = TRUE
    /\ clock = Len(sheet) - 1
    /\ pc = [s \in Sessions |-> "idle"]
    /\ term = [s \in Sessions |-> <<>>]
    /\ grid = [s \in Sessions |-> FALSE]
    /\ edited = [s \in Sessions |-> EmptyFrame]
    /\ form = [s \in Sessions |-> Nothing]
    /\ file_link = [s \in Sessions |-> <<>>]
    /\ msg = [s \in Sessions |-> "none"]
    /\ fresh = Nothing
    /\ missed = [s \in Sessions |-> {}]
    /\ racing = [s \in Sessions |-> {}]
    /\ interfered = [s \in Sessions |-> FALSE]

\* lines 174-212 of a run with search term t: the table is read, filtered and handed
\* to the data editor; edited keeps the frame the editor shows (nothing is retyped)
SearchRun(s, t) ==
    /\ Resting(s)
    /\ LET d == GetData("ok")
       IN  /\ grid' = Set(grid, s, ~FrameEmpty(d))
           /\ edited' = Set(edited, s, IF FrameEmpty(d) THEN EmptyFrame
                                       ELSE WithFileLink(DisplayFrame(d, t)))
    /\ term' = Set(term, s, t)
    /\ UNCHANGED <<remote, pc, form, file_link, msg, fresh, missed, racing, interfered>>

NextSearch == \E s \in Sessions, t \in SearchTerms : SearchRun(s, t)

SpecSearch == InitSearch /\ [][NextSearch]_vars

-----------------------------------------------------------------------------
(* Properties *)

\* the ids of the rows of a frame
RowIds(rows) == {rows[i].id : i \in DOMAIN rows} \ {0}

\* the ids of the records of a sheet (row 1 holds the keys)
RecordIds(sh) == {sh[i].id : i \in (DOMAIN sh) \ {1}} \ {0}

LastRow(sh) == sh[Len(sh)]

\* session s has appended a row in this run, nobody wrote after it, and tab 2 of
\* the rerun is about to read the table
JustAppended(s) ==
    pc[s] = "read" /\ msg[s] = "success" /\ form[s] # Nothing /\ ~interfered[s]

\* session s has completed an overwrite in this run and nobody wrote after it
JustOverwrote(s) ==
    pc[s] = "read" /\ msg[s] = "success" /\ form[s] = Nothing /\ ~interfered[s]

\* row r holds the values of the submitted form f
HoldsForm(r, f) ==
    /\ r.cells[TitleIx] = f.title
    /\ r.cells[CategoryIx] = f.category
    /\ r.cells[TagsIx] = f.tags
    /\ RatingOfText(r.cells[RatingIx]) = f.rating
    /\ r.cells[ReviewIx] = f.review

\* C1: after a submission with a title whose append succeeded, the read of all
\* records that comes next (no other write in between) returns records, and the
\* last of them, after all rows that were there before, holds exactly the
\* submitted title, category, tags, rating and review.
C1_ReadAfterAppend ==
    \A s \in Sessions :
        JustAppended(s) =>
            LET d == GetData("ok")
            IN  /\ ~FrameEmpty(d)
                /\ HoldsForm(LastRow(d.rows), form[s][1])

\* C2: a submission with an empty title, whatever the other fields, gets the
\* warning and goes straight to tab 2: it never stands before an append, holds no
\* uploaded link, and the steps of its run leave the table and the drive folder
\* as they were.
C2_EmptyTitleRejected ==
    /\ [](\A s \in Sessions :
            (form[s] # Nothing /\ form[s][1].title = <<>>) =>
                /\ pc[s] = "read"
                /\ msg[s] = "warning"
                /\ file_link[s] = <<>>)
    /\ [][\A s \in Sessions :
            (\/ form'[s] # form[s] /\ form'[s] # Nothing /\ form'[s][1].title = <<>>
             \/ form'[s] # form[s] /\ form[s] # Nothing /\ form[s][1].title = <<>>)
            => (sheet' = sheet /\ drive' = drive)]_vars

\* C2 witness: an empty-title submission with rating >= 8.0 and a file picked has
\* been handled
C2_Witness ==
    \E s \in Sessions :
        /\ pc[s] = "read" /\ msg[s] = "warning"
        /\ form[s] # Nothing
        /\ form[s][1].title = <<>>
        /\ form[s][1].rating >= UploadThreshold /\ form[s][1].file

\* the step in which session s submits a form with a title
SubmitStep(s) == pc[s] \in {"idle", "crashed"} /\ pc'[s] = "append"

\* the step in which the append of session s goes through
AppendStep(s) == pc[s] = "append" /\ pc'[s] = "read" /\ credsOk

C4_SearchNeverWrites ==
    /\ [](\A s \in Sessions : pc[s] \in {"clear", "update"} => term[s] = <<>>)
    /\ [][\A s \in Sessions :
            /\ term'[s] # term[s] => sheet' = sheet
            /\ (term[s] # <<>> /\ pc[s] \in {"idle", "crashed"}) => pc'[s] # "clear"
         ]_vars

\* C4 witness: a session filters with a term that hides a record, and the record
\* is in the table
C4_Witness ==
    \E s \in Sessions :
        /\ grid[s] /\ term[s] # <<>> /\ pc[s] = "idle"
        /\ LET d == GetAllRecords(sheet)
           IN  Len(DisplayFrame(d, term[s]).rows) < Len(d.rows)

\* text t holds text p as a contiguous piece, letter case ignored
ContainsNoCase(t, p) ==
    \E off \in 0..(Len(t) - Len(p)) :
        \A k \in 1..Len(p) : Lower(t[off + k]) = Lower(p[k])

\* text t occurs, letter case ignored, in the tags of record i of the frame and in
\* no other cell of any record
OnlyInTagsOf(d, i, t) ==
    \A j \in DOMAIN d.rows :
        \A c \in DOMAIN d.rows[j].cells :
            ContainsNoCase(d.rows[j].cells[c], t) <=> (j = i /\ c = TagsIx)

\* C5: whenever the search term occurs as a substring, letter case ignored, only in
\* the tags of one record, the grid shows exactly that record.
C5_OnlyTagsMatchShown ==
    \A s \in Sessions :
        (grid[s] /\ term[s] # <<>>) =>
            LET d == GetAllRecords(sheet)
            IN  \A i \in DOMAIN d.rows :
                    OnlyInTagsOf(d, i, term[s]) => edited[s].rows = <<d.rows[i]>>

\* C6: every record of the table holds the created_at written when it was appended.
C6_CreatedAtKept ==
    \A i \in DOMAIN sheet :
        sheet[i].id # 0 => sheet[i].cells[CreatedAtIx] = StrOfTime(sheet[i].id)

\* C7: no failure of a remote call leaves its operation as an unhandled exception.
C7_NoUnhandledException == \A s \in Sessions : pc[s] # "crashed"

\* the step in which session s presses save and its run reads the table
SaveStep(s) == pc[s] \in {"idle", "crashed"} /\ pc'[s] = "clear"

\* the step in which the update of session s goes through
UpdateStep(s) == pc[s] = "update" /\ pc'[s] = "read"

\* C8 (as amended): the overwrite is an unguarded read-modify-write.  The run
\* that save starts reads the table again, so its frame holds every record the
\* table has at that moment, rows appended before the button was pressed
\* included.  When nobody else writes between its clear and its update, the
\* overwrite ends with the success message and the table holds exactly the edited
\* rows of the session, so a row another session appended between that read and
\* the clear is gone.
C8_OverwriteLosesRacingAppend ==
    [][\A s \in Sessions :
        /\ SaveStep(s) => RowIds(edited'[s].rows) = RecordIds(sheet)
        /\ (UpdateStep(s) /\ ~interfered[s]) =>
            /\ sheet' = ValList(edited[s])
            /\ msg'[s] = "success"
            /\ racing[s] \cap RecordIds(sheet') = {}
      ]_vars

\* C8 witness: an overwrite has completed and a row that another session appended
\* between its read and its clear is not in the table
C8_Witness ==
    \E s \in Sessions :
        JustOverwrote(s) /\ racing[s] # {} /\ racing[s] \cap RecordIds(sheet) = {}

\* C8 as stated: a row that another session appended after the session's last
\* read and before it pressed save is not in the table when its overwrite completes
C8_AsStated ==
    \A s \in Sessions : JustOverwrote(s) => missed[s] \cap RecordIds(sheet) = {}

\* C9: clear and update are two steps without rollback.  Between the clear of a
\* session and its update, while nobody else writes, the table is blank and
\* get_data returns an empty frame; when the update fails the table stays as it
\* is, the run ends there and the edited frame is gone.
C9_ClearedStaysCleared ==
    /\ [](\A s \in Sessions :
            (pc[s] = "update" /\ ~interfered[s]) =>
                (sheet = <<>> /\ FrameEmpty(GetData("ok"))))
    /\ [][\A s \in Sessions :
            (pc[s] = "update" /\ pc'[s] = "crashed") =>
                (sheet' = sheet /\ edited'[s] = EmptyFrame)]_vars

\* C9 witness: an update has failed after its clear: the table is blank and no
\* update is pending
C9_Witness ==
    /\ sheet = <<>>
    /\ clock > 0
    /\ \E s \in Sessions : pc[s] = "crashed"
    /\ \A s \in Sessions : pc[s] # "update"

\* the links the rows of the table hold
LinksIn(sh) == {sh[i].cells[FileLinkIx] : i \in {j \in DOMAIN sh : Len(sh[j].cells) >= FileLinkIx}}

\* C10: the upload comes before the table write and nothing is cleaned up.  A
\* submission that stands before its append and holds a link has its file in the
\* folder already and the link in no row; the submit step does not write the
\* table; a failing append, or a missing client, leaves table and folder as they
\* are; and no step ever removes a file from the folder.
C10_UploadFirstNoCleanup ==
    /\ [](\A s \in Sessions :
            (pc[s] = "append" /\ Truthy(file_link[s])) =>
                (file_link[s] \in drive /\ file_link[s] \notin LinksIn(sheet)))
    /\ [][/\ drive \subseteq drive'
          /\ \A s \in Sessions :
                /\ SubmitStep(s) => sheet' = sheet
                /\ (pc[s] = "append" /\ pc'[s] = "crashed") =>
                        (sheet' = sheet /\ drive' = drive)
                /\ (pc[s] = "append" /\ ~credsOk) => (sheet' = sheet /\ drive' = drive)
         ]_vars

\* C10 witness: the append of a submission with an uploaded file has failed: the
\* folder holds a file, no row was ever appended and no append is pending
C10_Witness ==
    /\ drive # {}
    /\ clock = 0
    /\ drive \cap LinksIn(sheet) = {}
    /\ \E s \in Sessions : pc[s] = "crashed"
    /\ \A s \in Sessions : pc[s] # "append"

=============================================================================
